---- MODULE Spec2Model ----
(***************************************************************************)
(* A model of ml_toolkit's data_setup.py: the dataset acquirer             *)
(* (download_data, download_zip_data) acting on a filesystem and a         *)
(* network, and the loader factory (create_dataloaders) with the two       *)
(* DataLoaders it builds.                                                  *)
(*                                                                         *)
(* Paths are sequences of path segments relative to the working            *)
(* directory; <<>> is the working directory itself.                        *)
(***************************************************************************)
EXTENDS Integers, Sequences, FiniteSets, TLC

VARIABLES
    dirs,       \* the set of paths that are directories
    files,      \* function: path of a regular file -> its content
    netCalls,   \* number of HTTP requests sent so far
    pc,         \* position of the caller inside the running function
    op,         \* name of the function being (or last) called
    args,       \* arguments of that call
    body,       \* `request`: the response held by the running call
    todo,       \* archive members extractall has still to write
    ret,        \* value returned by the last call that returned
    exc,        \* exception raised by the last call that raised
    log,        \* history: the steps the running call has performed
    pre,        \* history: filesystem, request count, failed when the call began
    failed,     \* history: target dirs whose call raised in download/extract
    ncalls,     \* number of calls made
    train_dir,  \* listing of the directory given as train_dir
    test_dir,   \* listing of the directory given as test_dir
    batch_size,
    num_workers,
    lpc,        \* position of the caller of create_dataloaders
    class_names,
    train_dataloader,
    test_dataloader,
    it,         \* the DataLoader iterator of the pass being made
    last,       \* history: per loader, the last completed pass
    differed    \* history: per loader, whether two successive passes differed

acqVars == <<dirs, files, netCalls, pc, op, args, body, todo, ret, exc, log,
             pre, failed, ncalls>>

ldrVars == <<train_dir, test_dir, batch_size, num_workers, lpc, class_names,
             train_dataloader, test_dataloader, it, last, differed>>

vars == <<acqVars, ldrVars>>

----------------------------------------------------------------------------
(* Bounds *)

\* calls made in one behaviour
MaxCalls == 2

\* samples in a dataset whose passes are followed
MaxSamples == 3

\* largest batch_size
MaxBatch == 2

----------------------------------------------------------------------------
(* Paths (pathlib.Path) *)

\* data_path = Path("data/")
DataPath == <<"data">>

\* Path.__truediv__ for a relative right operand
Join(base, rel) == base \o rel

\* Path(p).name: the last path segment ("" when there is none)
PathName(p) == IF p = <<>> THEN "" ELSE p[Len(p)]

Parent(p) == IF p = <<>> THEN <<>> ELSE SubSeq(p, 1, Len(p) - 1)

\* the non-empty prefixes of p: what mkdir(parents=True) has to create
Ancestors(p) == { SubSeq(p, 1, i) : i \in 1..Len(p) }

\* Path.is_dir() in filesystem directory set d
IsDir(d, p) == p = <<>> \/ p \in d

IsFile(f, p) == p \in DOMAIN f

----------------------------------------------------------------------------
(* Contents and inputs *)

EmptyFile == [kind |-> "empty", members |-> {}]
Garbage   == [kind |-> "bytes", members |-> {}]
ZipOf(ms) == [kind |-> "zip", members |-> ms]
NoBody    == [kind |-> "none", members |-> {}]

\* what a server may answer: an archive of two class folders, an empty
\* archive, or bytes that are no archive (an error page)
Responses == { ZipOf({"classA", "classB"}), ZipOf({}), Garbage }

\* `source`: url says whether the string has an http(s) scheme; segs are its
\* path segments
Sources ==
    { [url |-> TRUE,  segs |-> <<"host", "a.zip">>],
      [url |-> TRUE,  segs |-> <<"host", "d2">>],
      [url |-> FALSE, segs |-> <<"data", "a.zip">>] }

\* `destination`
Destinations == { <<"d1">>, <<"d2">>, <<"data", "d1">> }

\* `target_dir_pth` of download_data
Targets == { <<"data">>, <<"data", "d2">>, <<"data", "labels.csv">> }

NoArgs == [source |-> [url |-> FALSE, segs |-> <<>>], destination |-> <<>>,
           remove_source |-> FALSE]

\* image_path = data_path / destination
ImagePath == Join(DataPath, args.destination)

\* data_path / target_file, target_file = Path(source).name
ArchivePath == Join(DataPath, <<PathName(args.source.segs)>>)

Quiescent == pc \in {"idle", "returned", "raised"}

----------------------------------------------------------------------------
(* Initial state: an empty working directory, or one left by earlier use *)

InitialDirs == { {}, {<<"data">>}, {<<"data">>, <<"data", "d1">>} }

InitAcq ==
    /\ dirs \in InitialDirs
    /\ files = << >>
    /\ netCalls = 0
    /\ pc = "idle"
    /\ op = "none"
    /\ args = NoArgs
    /\ body = NoBody
    /\ todo = {}
    /\ ret = <<"None">>
    /\ exc = "none"
    /\ log = <<>>
    /\ pre = [dirs |-> dirs, files |-> files, net |-> 0, failed |-> {}]
    /\ failed = {}
    /\ ncalls = 0

----------------------------------------------------------------------------
(* Raising and returning *)

InDownloadOrExtract == pc \in {"dz_open", "dz_get", "dz_write", "dz_unzip",
                               "dz_extract"}

\* an exception leaves the function: nothing catches it, nothing is undone
Raise(e) ==
    /\ pc' = "raised"
    /\ exc' = e
    /\ failed' = IF op = "download_zip_data" /\ InDownloadOrExtract
                 THEN failed \cup {ImagePath} ELSE failed
    /\ UNCHANGED <<op, args, ret, pre, ncalls, ldrVars>>

Return(v) ==
    /\ pc' = "returned"
    /\ ret' = v
    /\ UNCHANGED <<op, args, exc, pre, failed, ncalls, ldrVars>>

Goto(l) ==
    /\ pc' = l
    /\ UNCHANGED <<op, args, ret, exc, pre, failed, ncalls, ldrVars>>

----------------------------------------------------------------------------
(* download_zip_data: the name is bound to the definition at line 62, which *)
(* replaces the one at line 38 when the module is loaded                    *)

\* the def statements of the module in the order they are executed
ModuleDefs ==
    << [name |-> "download_data", line |-> 17],
       [name |-> "download_zip_data", line |-> 38],
       [name |-> "download_zip_data", line |-> 62],
       [name |-> "create_dataloaders", line |-> 109] >>

\* the definition a name is bound to once the module is loaded: the last one
Binding(name) ==
    LET i == CHOOSE k \in 1..Len(ModuleDefs) :
                 /\ ModuleDefs[k].name = name
                 /\ \A j \in (k + 1)..Len(ModuleDefs) : ModuleDefs[j].name # name
    IN ModuleDefs[i].line

CallDownloadZipData(s, d, r) ==
    /\ Quiescent
    /\ Binding("download_zip_data") = 62
    /\ ncalls < MaxCalls
    /\ pc' = "dz_check"
    /\ op' = "download_zip_data"
    /\ args' = [source |-> s, destination |-> d, remove_source |-> r]
    /\ pre' = [dirs |-> dirs, files |-> files, net |-> netCalls,
               failed |-> failed]
    /\ log' = <<>>
    /\ body' = NoBody
    /\ todo' = {}
    /\ ncalls' = ncalls + 1
    /\ UNCHANGED <<dirs, files, netCalls, ret, exc, failed, ldrVars>>

\* mutant: the removal of the archive sits outside the else branch
DZ_CheckDir_SkipStillRemoves ==
    /\ pc = "dz_check"
    /\ IF IsDir(dirs, ImagePath)
       THEN /\ Goto("dz_remove")
            /\ log' = Append(log, "skip")
       ELSE /\ Goto("dz_mkdir")
            /\ log' = log
    /\ UNCHANGED <<dirs, files, netCalls, body, todo>>

\* if image_path.is_dir(): ... skipping download ; return image_path
DZ_CheckDir ==
    /\ pc = "dz_check"
    /\ IF IsDir(dirs, ImagePath)
       THEN /\ Return(ImagePath)
            /\ log' = Append(log, "skip")
       ELSE /\ Goto("dz_mkdir")
            /\ log' = log
    /\ UNCHANGED <<dirs, files, netCalls, body, todo>>

\* mutant: the directory is not created
DZ_Mkdir_Forgotten ==
    /\ pc = "dz_mkdir"
    /\ Goto("dz_open")
    /\ UNCHANGED <<dirs, files, netCalls, body, todo, log>>

\* image_path.mkdir(parents=True, exist_ok=True)
DZ_Mkdir ==
    /\ pc = "dz_mkdir"
    /\ IF \E a \in Ancestors(ImagePath) : IsFile(files, a)
       THEN /\ Raise("FileExistsError")
            /\ UNCHANGED <<dirs, log>>
       ELSE /\ dirs' = dirs \cup Ancestors(ImagePath)
            /\ log' = Append(log, "mkdir")
            /\ Goto("dz_open")
    /\ UNCHANGED <<files, netCalls, body, todo>>

\* with open(data_path / target_file, "wb") as f:
DZ_Open ==
    /\ pc = "dz_open"
    /\ IF IsDir(dirs, ArchivePath)
       THEN /\ Raise("IsADirectoryError")
            /\ UNCHANGED <<files, log>>
       ELSE IF ~IsDir(dirs, Parent(ArchivePath))
       THEN /\ Raise("FileNotFoundError")
            /\ UNCHANGED <<files, log>>
       ELSE /\ files' = (ArchivePath :> EmptyFile) @@ files
            /\ log' = Append(log, "open")
            /\ Goto("dz_get")
    /\ UNCHANGED <<dirs, netCalls, body, todo>>

\* request = requests.get(source)
DZ_Get ==
    /\ pc = "dz_get"
    /\ IF ~args.source.url
       THEN /\ Raise("MissingSchema")
            /\ UNCHANGED <<netCalls, body, log>>
       ELSE /\ netCalls' = netCalls + 1
            /\ log' = Append(log, "get")
            /\ \/ /\ Raise("ConnectionError")
                  /\ body' = body
               \/ /\ \E resp \in Responses : body' = resp
                  /\ Goto("dz_write")
    /\ UNCHANGED <<dirs, files, todo>>

\* f.write(request.content)
DZ_Write ==
    /\ pc = "dz_write"
    /\ files' = (ArchivePath :> body) @@ files
    /\ log' = Append(log, "write")
    /\ Goto("dz_unzip")
    /\ UNCHANGED <<dirs, netCalls, body, todo>>

\* with zipfile.ZipFile(data_path / target_file, "r") as zip_ref:
DZ_Unzip ==
    /\ pc = "dz_unzip"
    /\ IF files[ArchivePath].kind # "zip"
       THEN /\ Raise("BadZipFile")
            /\ UNCHANGED <<todo, log>>
       ELSE /\ todo' = files[ArchivePath].members
            /\ log' = Append(log, "unzip")
            /\ Goto("dz_extract")
    /\ UNCHANGED <<dirs, files, netCalls, body>>

\* mutant: a failed extraction removes the target directory again
DZ_Extract_Rollback ==
    /\ pc = "dz_extract"
    /\ \/ \E m \in todo :
            /\ dirs' = dirs \cup {Join(ImagePath, <<m>>)}
            /\ files' = (Join(ImagePath, <<m, "1.jpg">>) :> Garbage) @@ files
            /\ todo' = todo \ {m}
            /\ log' = Append(log, "member")
            /\ Goto("dz_extract")
       \/ /\ todo # {}
          /\ Raise("OSError")
          /\ dirs' = { d \in dirs : Len(d) < Len(ImagePath)
                           \/ SubSeq(d, 1, Len(ImagePath)) # ImagePath }
          /\ files' = [ f \in { g \in DOMAIN files : Len(g) < Len(ImagePath)
                           \/ SubSeq(g, 1, Len(ImagePath)) # ImagePath }
                         |-> files[f] ]
          /\ UNCHANGED <<todo, log>>
       \/ /\ todo = {}
          /\ log' = Append(log, "close")
          /\ Goto("dz_remove")
          /\ UNCHANGED <<dirs, files, todo>>
    /\ UNCHANGED <<netCalls, body>>

\* zip_ref.extractall(image_path): one member after the other; an error
\* (disk full, damaged member) may end it at any point
DZ_Extract ==
    /\ pc = "dz_extract"
    /\ \/ \E m \in todo :
            /\ dirs' = dirs \cup {Join(ImagePath, <<m>>)}
            /\ files' = (Join(ImagePath, <<m, "1.jpg">>) :> Garbage) @@ files
            /\ todo' = todo \ {m}
            /\ log' = Append(log, "member")
            /\ Goto("dz_extract")
       \/ /\ todo # {}
          /\ Raise("OSError")
          /\ UNCHANGED <<dirs, files, todo, log>>
       \/ /\ todo = {}
          /\ log' = Append(log, "close")
          /\ Goto("dz_remove")
          /\ UNCHANGED <<dirs, files, todo>>
    /\ UNCHANGED <<netCalls, body>>

\* mutant: the archive is removed whatever remove_source says
DZ_Remove_Always ==
    /\ pc = "dz_remove"
    /\ files' = [p \in DOMAIN files \ {ArchivePath} |-> files[p]]
    /\ log' = Append(log, "remove")
    /\ Goto("dz_return")
    /\ UNCHANGED <<dirs, netCalls, body, todo>>

\* if remove_source: os.remove(data_path / target_file)
DZ_Remove ==
    /\ pc = "dz_remove"
    /\ IF args.remove_source
       THEN /\ files' = [p \in DOMAIN files \ {ArchivePath} |-> files[p]]
            /\ log' = Append(log, "remove")
       ELSE UNCHANGED <<files, log>>
    /\ Goto("dz_return")
    /\ UNCHANGED <<dirs, netCalls, body, todo>>

\* return image_path
DZ_Return ==
    /\ pc = "dz_return"
    /\ Return(ImagePath)
    /\ UNCHANGED <<dirs, files, netCalls, body, todo, log>>

----------------------------------------------------------------------------
(* download_data *)

CallDownloadData(t, s) ==
    /\ Quiescent
    /\ ncalls < MaxCalls
    /\ pc' = "dd_check"
    /\ op' = "download_data"
    /\ args' = [source |-> s, destination |-> t, remove_source |-> FALSE]
    /\ pre' = [dirs |-> dirs, files |-> files, net |-> netCalls,
               failed |-> failed]
    /\ log' = <<>>
    /\ body' = NoBody
    /\ todo' = {}
    /\ ncalls' = ncalls + 1
    /\ UNCHANGED <<dirs, files, netCalls, ret, exc, failed, ldrVars>>

\* mutant: the check logs the error and goes on
DD_CheckDir_NoReturn ==
    /\ pc = "dd_check"
    /\ Goto("dd_download")
    /\ UNCHANGED <<dirs, files, netCalls, body, todo, log>>

\* if target_dir_pth.is_dir() is False: print(...); return
DD_CheckDir ==
    /\ pc = "dd_check"
    /\ IF ~IsDir(dirs, args.destination)
       THEN Return(<<"None">>)
       ELSE Goto("dd_download")
    /\ UNCHANGED <<dirs, files, netCalls, body, todo, log>>

\* with open(target_dir_pth, "wb") as f:
\*     request = requests.get(data_source_pth); f.write(request.content)
DD_Download ==
    /\ pc = "dd_download"
    /\ \E resp \in Responses \cup {NoBody} :
        IF IsDir(dirs, args.destination)
        THEN /\ resp = NoBody
             /\ Raise("IsADirectoryError")
             /\ UNCHANGED <<dirs, files, netCalls, body, log>>
        ELSE IF ~IsDir(dirs, Parent(args.destination))
        THEN /\ resp = NoBody
             /\ Raise("FileNotFoundError")
             /\ UNCHANGED <<dirs, files, netCalls, body, log>>
        ELSE IF ~args.source.url
        THEN /\ resp = NoBody
             /\ files' = (args.destination :> EmptyFile) @@ files
             /\ log' = Append(log, "open")
             /\ Raise("MissingSchema")
             /\ UNCHANGED <<dirs, netCalls, body>>
        ELSE IF resp = NoBody
        THEN /\ files' = (args.destination :> EmptyFile) @@ files
             /\ netCalls' = netCalls + 1
             /\ log' = log \o <<"open", "get">>
             /\ Raise("ConnectionError")
             /\ UNCHANGED <<dirs, body>>
        ELSE /\ files' = (args.destination :> resp) @@ files
             /\ netCalls' = netCalls + 1
             /\ body' = resp
             /\ log' = log \o <<"open", "get", "write">>
             /\ Return(<<"None">>)
             /\ UNCHANGED dirs
    /\ UNCHANGED todo

----------------------------------------------------------------------------
(* Directory listings given to create_dataloaders.  A name is a sequence of *)
(* character codes; an entry is absent, a plain file, or a class directory  *)
(* holding n image files.                                                   *)

Names == { <<1>>, <<1, 2>>, <<2>> }

Absent      == [kind |-> "absent", n |-> 0]
PlainFile   == [kind |-> "file", n |-> 0]
ClassDir(k) == [kind |-> "dir", n |-> k]

\* str.__lt__: the order sorted() puts names in
LexLess(s, t) ==
    \E i \in 1..Len(t) :
        /\ \A j \in 1..(i - 1) : j <= Len(s) /\ s[j] = t[j]
        /\ (i > Len(s) \/ s[i] < t[i])

RECURSIVE Sorted(_)
Sorted(S) ==
    IF S = {} THEN <<>>
    ELSE LET m == CHOOSE x \in S : \A y \in S \ {x} : LexLess(x, y)
         IN <<m>> \o Sorted(S \ {m})

\* ImageFolder.find_classes: the sorted names of the entries that are
\* directories
FindClasses(dir) == Sorted({ nm \in Names : dir[nm].kind = "dir" })

\* ImageFolder's samples: class after class, file after file
RECURSIVE MakeDataset(_, _, _)
MakeDataset(dir, cls, i) ==
    IF i > Len(cls) THEN <<>>
    ELSE [f \in 1..dir[cls[i]].n |-> [cls |-> cls[i], file |-> f, label |-> i]]
         \o MakeDataset(dir, cls, i + 1)

\* datasets.ImageFolder(dir, transform=transform)
ImageFolder(dir) ==
    [classes |-> FindClasses(dir),
     samples |-> MakeDataset(dir, FindClasses(dir), 1)]

\* ImageFolder raises FileNotFoundError when it finds no class folder
ImageFolderRaises(dir) == FindClasses(dir) = <<>>

\* mutant: the class names are taken from the test dataset
ClassNames_FromTest(train_data, test_data) == test_data.classes

\* class_names = train_data.classes
ClassNames(train_data, test_data) == train_data.classes

\* mutant: the train loader drops the last, incomplete batch
TrainDataLoader_DropLast(data, bs, nw) ==
    [dataset |-> data.samples, batch_size |-> bs, shuffle |-> TRUE,
     num_workers |-> nw, drop_last |-> TRUE]

\* DataLoader(train_data, batch_size=batch_size, shuffle=True, ...)
TrainDataLoader(data, bs, nw) ==
    [dataset |-> data.samples, batch_size |-> bs, shuffle |-> TRUE,
     num_workers |-> nw, drop_last |-> FALSE]

\* mutant: the test loader shuffles as the train loader does
TestDataLoader_Shuffled(data, bs, nw) ==
    [dataset |-> data.samples, batch_size |-> bs, shuffle |-> TRUE,
     num_workers |-> nw, drop_last |-> FALSE]

\* DataLoader(test_data, batch_size=batch_size, shuffle=False, ...)
TestDataLoader(data, bs, nw) ==
    [dataset |-> data.samples, batch_size |-> bs, shuffle |-> FALSE,
     num_workers |-> nw, drop_last |-> FALSE]

NoLoader == [dataset |-> <<>>, batch_size |-> 0, shuffle |-> FALSE,
             num_workers |-> 0, drop_last |-> FALSE]

NoIter == [which |-> "none", batches |-> <<>>, sent |-> 0, ready |-> {},
           yielded |-> <<>>]

LoaderOf(w) == IF w = "train" THEN train_dataloader ELSE test_dataloader

\* the state of the loader factory before create_dataloaders is called
LoaderStart ==
    /\ lpc = "start"
    /\ class_names = <<>>
    /\ train_dataloader = NoLoader
    /\ test_dataloader = NoLoader
    /\ it = NoIter
    /\ last = [train |-> <<>>, test |-> <<>>]
    /\ differed = [train |-> FALSE, test |-> FALSE]

\* create_dataloaders(train_dir, test_dir, transform, batch_size, num_workers)
CreateDataloaders ==
    /\ lpc = "start"
    /\ IF ImageFolderRaises(train_dir) \/ ImageFolderRaises(test_dir)
       THEN /\ lpc' = "raised"
            /\ UNCHANGED <<class_names, train_dataloader, test_dataloader>>
       ELSE LET train_data == ImageFolder(train_dir)
                test_data  == ImageFolder(test_dir)
            IN /\ class_names' = ClassNames(train_data, test_data)
               /\ train_dataloader' =
                      TrainDataLoader(train_data, batch_size, num_workers)
               /\ test_dataloader' =
                      TestDataLoader(test_data, batch_size, num_workers)
               /\ lpc' = "created"
    /\ UNCHANGED <<train_dir, test_dir, batch_size, num_workers, it, last,
                   differed, acqVars>>

----------------------------------------------------------------------------
(* One pass over a DataLoader *)

Min(a, b) == IF a < b THEN a ELSE b

\* RandomSampler: any permutation of the indices; SequentialSampler: 1..n
IndexPermutations(n) ==
    { p \in [1..n -> 1..n] : \A i, j \in 1..n : i # j => p[i] # p[j] }

SamplerOrders(loader) ==
    IF loader.shuffle
    THEN IndexPermutations(Len(loader.dataset))
    ELSE { [i \in 1..Len(loader.dataset) |-> i] }

\* BatchSampler: the order cut into batches of b indices
BatchSampler(order, b, drop_last) ==
    LET n  == Len(order)
        nb == IF drop_last \/ n % b = 0 THEN n \div b ELSE n \div b + 1
    IN [k \in 1..nb |-> SubSeq(order, (k - 1) * b + 1, Min(k * b, n))]

\* iter(loader): the sampler fixes the order of the pass; with workers, the
\* first 2 * num_workers batches are handed out
StartPass(w) ==
    /\ lpc = "created"
    /\ it.which = "none"
    /\ \E order \in SamplerOrders(LoaderOf(w)) :
         LET bs == BatchSampler(order, LoaderOf(w).batch_size,
                                LoaderOf(w).drop_last)
         IN it' = [which |-> w, batches |-> bs,
                   sent |-> Min(2 * LoaderOf(w).num_workers, Len(bs)),
                   ready |-> {}, yielded |-> <<>>]
    /\ UNCHANGED <<train_dir, test_dir, batch_size, num_workers, lpc,
                   class_names, train_dataloader, test_dataloader, last,
                   differed, acqVars>>

\* the batches handed out and not yet collated
InFlight == { i \in (Len(it.yielded) + 1)..it.sent : i \notin it.ready }

\* batch i goes to worker (i - 1) mod num_workers
WorkerOf(i) == (i - 1) % LoaderOf(it.which).num_workers

\* worker k finishes the oldest batch it holds
WorkerDone(k) ==
    /\ it.which # "none"
    /\ \E i \in InFlight :
        /\ WorkerOf(i) = k
        /\ \A j \in InFlight : WorkerOf(j) = k => i <= j
        /\ it' = [it EXCEPT !.ready = @ \cup {i}]
    /\ UNCHANGED <<train_dir, test_dir, batch_size, num_workers, lpc,
                   class_names, train_dataloader, test_dataloader, last,
                   differed, acqVars>>

\* next(iterator): the batch whose turn it is, fetched in the caller when
\* num_workers = 0 and otherwise taken once its worker has finished it
NextBatch ==
    /\ it.which # "none"
    /\ LET i == Len(it.yielded) + 1
       IN /\ i <= Len(it.batches)
          /\ IF LoaderOf(it.which).num_workers = 0
             THEN it' = [it EXCEPT !.yielded = Append(@, it.batches[i])]
             ELSE /\ i \in it.ready
                  /\ it' = [it EXCEPT !.yielded = Append(@, it.batches[i]),
                                      !.ready = @ \ {i},
                                      !.sent = Min(@ + 1, Len(it.batches))]
    /\ UNCHANGED <<train_dir, test_dir, batch_size, num_workers, lpc,
                   class_names, train_dataloader, test_dataloader, last,
                   differed, acqVars>>

PassComplete == it.which # "none" /\ Len(it.yielded) = Len(it.batches)

\* StopIteration: the pass is over
EndPass ==
    /\ PassComplete
    /\ last' = [last EXCEPT ![it.which] = <<it.yielded>>]
    /\ differed' = [differed EXCEPT ![it.which] =
                       @ \/ (last[it.which] # <<>>
                             /\ last[it.which][1] # it.yielded)]
    /\ it' = NoIter
    /\ UNCHANGED <<train_dir, test_dir, batch_size, num_workers, lpc,
                   class_names, train_dataloader, test_dataloader, acqVars>>

----------------------------------------------------------------------------
(* Inputs of create_dataloaders *)

\* every listing of class directories with one image each, plain files, and
\* absent names
\* num_workers: loading in the caller, or in two worker processes
WorkerCounts == {0, 2}

LabelListings == [Names -> {Absent, PlainFile, ClassDir(1)}]

Total(dir) == LET cls == FindClasses(dir) IN Len(MakeDataset(dir, cls, 1))

\* listings of up to two class directories holding up to MaxSamples images
\* in all
PassListings ==
    { dir \in [Names -> {Absent} \cup { ClassDir(k) : k \in 1..MaxSamples }] :
         /\ dir[<<1, 2>>] = Absent
         /\ Total(dir) <= MaxSamples }

LabelInputs ==
    /\ train_dir \in LabelListings
    /\ test_dir \in LabelListings
    /\ batch_size \in 1..MaxBatch
    /\ num_workers \in WorkerCounts
    /\ LoaderStart

\* the two directories are splits of the same layout
PassInputs ==
    /\ train_dir \in PassListings
    /\ test_dir = train_dir
    /\ batch_size \in 1..MaxBatch
    /\ num_workers \in WorkerCounts
    /\ LoaderStart

\* the acquirer, not called
AcqIdle ==
    /\ dirs = {}
    /\ files = << >>
    /\ netCalls = 0
    /\ pc = "idle"
    /\ op = "none"
    /\ args = NoArgs
    /\ body = NoBody
    /\ todo = {}
    /\ ret = <<"None">>
    /\ exc = "none"
    /\ log = <<>>
    /\ pre = [dirs |-> {}, files |-> << >>, net |-> 0, failed |-> {}]
    /\ failed = {}
    /\ ncalls = 0

\* the loader factory, not called
LoaderIdle ==
    /\ train_dir = [nm \in Names |-> Absent]
    /\ test_dir = [nm \in Names |-> Absent]
    /\ batch_size = 1
    /\ num_workers = 0
    /\ LoaderStart

NextLabels == CreateDataloaders

NextPasses ==
    \/ CreateDataloaders
    \/ \E w \in {"train", "test"} : StartPass(w)
    \/ \E k \in 0..(num_workers - 1) : WorkerDone(k)
    \/ NextBatch
    \/ EndPass

----------------------------------------------------------------------------

NextAcq ==
    \/ \E s \in Sources, d \in Destinations, r \in BOOLEAN :
          CallDownloadZipData(s, d, r)
    \/ DZ_CheckDir
    \/ DZ_Mkdir
    \/ DZ_Open
    \/ DZ_Get
    \/ DZ_Write
    \/ DZ_Unzip
    \/ DZ_Extract
    \/ DZ_Remove
    \/ DZ_Return
    \/ \E t \in Targets, s \in Sources : CallDownloadData(t, s)
    \/ DD_CheckDir
    \/ DD_Download

Init == InitAcq /\ LoaderIdle

Spec == Init /\ [][NextAcq]_vars

InitLabels == AcqIdle /\ LabelInputs

SpecLabels == InitLabels /\ [][NextLabels]_vars

InitPasses == AcqIdle /\ PassInputs

SpecPasses == InitPasses /\ [][NextPasses]_vars

InDZ == op = "download_zip_data"
InDD == op = "download_data"

FsUnchanged == dirs = pre.dirs /\ files = pre.files

Has(l, e) == \E i \in 1..Len(l) : l[i] = e

\* C1: a call of download_zip_data whose target directory data/<destination>
\* exists when it is called sends no request, changes no directory and no
\* file, and returns data/<destination>, for either remove_source.
C1_SkipIsNoOp ==
    (InDZ /\ IsDir(pre.dirs, ImagePath) /\ pc # "dz_check")
        => /\ pc = "returned"
           /\ ret = ImagePath
           /\ netCalls = pre.net
           /\ FsUnchanged

\* a skipped call with remove_source set, the archive of the same name lying
\* in data/ and the target directory holding files
C1_Witness ==
    /\ InDZ /\ pc = "returned" /\ log = <<"skip">>
    /\ args.remove_source
    /\ IsFile(files, ArchivePath)
    /\ \E f \in DOMAIN files : Len(f) > Len(ImagePath)
                               /\ SubSeq(f, 1, Len(ImagePath)) = ImagePath

\* C2: download_data called with a path that is no directory sends no
\* request, leaves the filesystem as it was and returns normally.
C2_MissingDirReturnsEarly ==
    (InDD /\ ~IsDir(pre.dirs, args.destination) /\ pc # "dd_check")
        => /\ pc = "returned"
           /\ ret = <<"None">>
           /\ netCalls = pre.net
           /\ FsUnchanged

C2_Witness ==
    /\ InDD /\ pc = "returned"
    /\ ~IsDir(pre.dirs, args.destination)
    /\ args.source.url

\* C3: download_data called with an existing directory and a URL sends
\* exactly one request, writes the response to the path as a file and
\* returns normally.
C3_FetchSucceeds ==
    (InDD /\ IsDir(pre.dirs, args.destination) /\ args.source.url /\ Quiescent)
        => /\ pc = "returned"
           /\ netCalls = pre.net + 1
           /\ IsFile(files, args.destination)
           /\ files[args.destination] = body

\* C4 as stated: after any call of download_zip_data returns, the archive
\* data/<name> is absent when remove_source is true and present when false.
C4_ArchiveFollowsFlag ==
    (InDZ /\ pc = "returned")
        => /\ args.remove_source => ~IsFile(files, ArchivePath)
           /\ (~args.remove_source
                 /\ (IsFile(pre.files, ArchivePath) \/ Has(log, "write")))
                 => IsFile(files, ArchivePath)

\* C4 amended: the same, for the calls that did not take the skip path.
C4_ArchiveFollowsFlagUnlessSkipped ==
    (InDZ /\ pc = "returned" /\ log # <<"skip">>)
        => (args.remove_source <=> ~IsFile(files, ArchivePath))

C4_Witness ==
    /\ InDZ /\ pc = "returned" /\ log # <<"skip">>
    /\ ~args.remove_source
    /\ IsFile(files, ArchivePath) /\ files[ArchivePath].kind = "zip"

\* the call names an archive that lies on the local disk
LocalArchiveCall ==
    /\ InDZ
    /\ ~args.source.url
    /\ IsFile(pre.files, args.source.segs)
    /\ pre.files[args.source.segs].kind = "zip"

\* the files under directory d
Under(f, d) == { g \in DOMAIN f : Len(g) > Len(d) /\ SubSeq(g, 1, Len(d)) = d }

\* C5: download_zip_data called with a local archive and a target directory
\* sends no request; it returns at once, extracting nothing, when the target
\* directory does not exist, and otherwise extracts every member of the
\* archive into exactly that directory.
C5_ExtractLocalArchive ==
    (LocalArchiveCall /\ Quiescent)
        => /\ pc = "returned"
           /\ netCalls = pre.net
           /\ IF ~IsDir(pre.dirs, args.destination)
              THEN FsUnchanged
              ELSE /\ \A m \in pre.files[args.source.segs].members :
                         IsFile(files, Join(args.destination, <<m, "1.jpg">>))
                   /\ \A g \in (DOMAIN files) \ Under(files, args.destination) :
                         IsFile(pre.files, g) /\ files[g] = pre.files[g]

\* the phase a logged step belongs to
Phase(e) ==
    CASE e = "mkdir" -> 1
      [] e \in {"open", "get", "write"} -> 2
      [] e \in {"unzip", "member", "close"} -> 3
      [] e = "remove" -> 4
      [] OTHER -> 0

\* the phases of the running call, in the order they began
RECURSIVE Phases(_)
Phases(l) ==
    IF l = <<>> THEN <<>>
    ELSE LET r == Phases(SubSeq(l, 1, Len(l) - 1))
             p == Phase(l[Len(l)])
         IN IF r # <<>> /\ r[Len(r)] = p THEN r ELSE Append(r, p)

\* C9: a call of download_zip_data that does not skip goes through create
\* directory, download, extract, delete in this order and leaves none out;
\* it never opens or extracts the archive while the target directory is
\* missing, and deletes the archive only after extraction has completed.
C9_StepsInOrder ==
    (InDZ /\ ~Has(log, "skip"))
        => /\ \A i \in 1..Len(Phases(log)) : Phases(log)[i] = i
           /\ (pc \in {"dz_unzip", "dz_extract"} \/ Has(log, "unzip"))
                 => IsDir(dirs, ImagePath)
           /\ Has(log, "remove") => Has(log, "close") /\ todo = {}
           /\ pc = "returned"
                 => Len(Phases(log)) = IF args.remove_source THEN 4 ELSE 3

\* a call that went through all four steps and extracted two members
C9_Witness ==
    /\ InDZ /\ pc = "returned"
    /\ log = <<"mkdir", "open", "get", "write", "unzip", "member", "member",
               "close", "remove">>

\* C10: the target directory of a call that raised during download or
\* extraction stays, and a later call for the same destination skips: it
\* sends no request, extracts nothing and returns the directory as it was
\* left.
C10_FailedTargetIsSkipped ==
    /\ \A d \in failed : IsDir(dirs, d)
    /\ (InDZ /\ ImagePath \in pre.failed /\ pc # "dz_check")
          => /\ pc = "returned"
             /\ ret = ImagePath
             /\ log = <<"skip">>
             /\ netCalls = pre.net
             /\ FsUnchanged

\* a skipped call whose target directory an earlier, failed extraction left
\* with one of the archive's two members
C10_Witness ==
    /\ InDZ /\ pc = "returned" /\ ImagePath \in pre.failed
    /\ Cardinality(Under(files, ImagePath)) = 1

----------------------------------------------------------------------------
(* Properties of the loader factory *)

ClassDirsOf(dir) == { nm \in Names : dir[nm].kind = "dir" }

\* C6: the class names create_dataloaders returns are the names of
\* train_dir's immediate subdirectories in lexicographic order, N of them for
\* N class folders, whatever test_dir holds.
C6_ClassNamesFromTrain ==
    lpc = "created"
        => /\ { class_names[i] : i \in 1..Len(class_names) }
                 = ClassDirsOf(train_dir)
           /\ Len(class_names) = Cardinality(ClassDirsOf(train_dir))
           /\ \A i, j \in 1..Len(class_names) :
                 i < j => LexLess(class_names[i], class_names[j])

\* two train classes beside a plain file, one of the two in the test directory
C6_Witness ==
    /\ lpc = "created"
    /\ Cardinality(ClassDirsOf(train_dir)) = 2
    /\ Cardinality(ClassDirsOf(test_dir)) = 1
    /\ ClassDirsOf(test_dir) \subseteq ClassDirsOf(train_dir)
    /\ \E nm \in Names : train_dir[nm].kind = "file"

RECURSIVE Flatten(_)
Flatten(bs) == IF bs = <<>> THEN <<>> ELSE Head(bs) \o Flatten(Tail(bs))

CeilDiv(n, b) == (n + b - 1) \div b

\* the size batch k of a pass over n samples in batches of b must have
SizeOfBatch(k, n, b) == IF k = CeilDiv(n, b) /\ n % b # 0 THEN n % b ELSE b

\* C7: a pass over the train loader yields ceil(n/b) batches that hold every
\* sample exactly once, each of b samples but a last one of n mod b when b
\* does not divide n; 17 samples in batches of 8 come as 8, 8, 1.
C7_TrainBatches ==
    LET n == Len(train_dataloader.dataset)
        b == train_dataloader.batch_size
    IN /\ it.which = "train"
            => /\ \A k \in 1..Len(it.yielded) :
                     Len(it.yielded[k]) = SizeOfBatch(k, n, b)
               /\ PassComplete
                     => /\ Len(it.yielded) = CeilDiv(n, b)
                        /\ \A x \in 1..n :
                              Cardinality({ i \in 1..Len(Flatten(it.yielded)) :
                                  Flatten(it.yielded)[i] = x }) = 1
       /\ lpc = "created"
            => LET bs == BatchSampler([i \in 1..17 |-> i], 8,
                                      train_dataloader.drop_last)
               IN [k \in 1..Len(bs) |-> Len(bs[k])] = <<8, 8, 1>>

\* a shuffled pass over three samples in batches of two: a full batch and a
\* last batch of one
C7_Witness ==
    /\ it.which = "train" /\ PassComplete
    /\ Len(train_dataloader.dataset) = 3
    /\ Len(it.yielded) = 2
    /\ Len(it.yielded[1]) = 2 /\ Len(it.yielded[2]) = 1
    /\ Flatten(it.yielded) # <<1, 2, 3>>

IsPrefix(s, t) == Len(s) <= Len(t) /\ SubSeq(t, 1, Len(s)) = s

\* C8: the test loader does not shuffle and the train loader does: every
\* pass over the test loader yields the samples in the dataset's order, the
\* same as the pass before, with or without workers.
C8_TestOrderFixed ==
    /\ lpc = "created" => train_dataloader.shuffle /\ ~test_dataloader.shuffle
    /\ ~differed.test
    /\ it.which = "test"
          => /\ Flatten(it.yielded) = [i \in 1..Len(Flatten(it.yielded)) |-> i]
             /\ last.test # <<>> => IsPrefix(it.yielded, last.test[1])

\* a second pass over the test loader, made with two workers, after two
\* passes over the train loader that differed
C8_Witness ==
    /\ it.which = "test" /\ PassComplete
    /\ last.test # <<>>
    /\ num_workers = 2
    /\ Len(it.yielded) >= 2
    /\ differed.train

====
